---- MODULE Spec2Model ----
(***************************************************************************)
(* Limine boot-protocol binding layer (src/kernel/limine_def.rs):          *)
(* the nullable external pointer LiminePtr, the framebuffer Request        *)
(* Record with its response slot, the decoding of a Response Record into   *)
(* framebuffer entries, and LimineFramebuffer::size.                       *)
(*                                                                         *)
(* Three specifications over the same variables:                           *)
(*   Spec        the request/response handshake: the boot loader's write   *)
(*               of the response slot and kernel contexts calling          *)
(*               get_response, as_ptr, get, get_mut;                       *)
(*   SpecDecode  LimineFramebufferResponse::framebuffers over a            *)
(*               producer-owned array of entry pointers;                   *)
(*   SpecSize    LimineFramebuffer::size over 64-bit geometry.             *)
(***************************************************************************)
EXTENDS Naturals, Sequences, FiniteSets

VARIABLES
    request,        \* the LimineFramebufferRequest: [id, revision, response]
    arg_revision,   \* the argument `revision` that new() was called with
    written,        \* the address the boot loader stored in the slot (NULL: none yet)
    pc,             \* per kernel context: "idle" or "reading" (inside get_response)
    ret,            \* per kernel context: the LiminePtr last returned by get_response
    entered,        \* per kernel context: had the store happened when the call was entered
    returned,       \* per kernel context: had the store happened when the call returned
    overlap,        \* per kernel context: was another context inside get_response at its last read
    acc,            \* per kernel context: results of as_ptr/get/get_mut on the wrapper in ret
    overflow_checks,\* build profile: are arithmetic overflow checks compiled in
    fb,             \* SpecSize: the LimineFramebuffer that size() is applied to
    size_out,       \* SpecSize: outcome of size()
    response,       \* SpecDecode: the LimineFramebufferResponse
    array,          \* SpecDecode: the producer's array of pointers to entries
    heap,           \* SpecDecode: producer memory, address -> LimineFramebuffer
    slice_out       \* SpecDecode: outcome of framebuffers()

handshake_vars ==
    <<request, arg_revision, written, pc, ret, entered, returned, overlap, acc>>
size_vars == <<overflow_checks, fb, size_out>>
decode_vars == <<response, array, heap, slice_out>>
vars == <<handshake_vars, size_vars, decode_vars>>

(***************************************************************************)
(* Bounds of the model.                                                    *)
(***************************************************************************)
NContexts == 2
MaxRevision == 1
MaxResponseSlots == 2
MaxCount == 2

Contexts == 1..NContexts
Revisions == 0..MaxRevision

(***************************************************************************)
(* Option<T>, and the bit pattern of Option<NonNull<T>>.                   *)
(***************************************************************************)
\* Option<NonNull<T>>::None is the null address (LiminePtr is repr(transparent)).
NULL == 0

\* An Option<T> is a sequence of at most one T.
None == <<>>
Some(v) == <<v>>
IsSome(o) == o # <<>>

\* A u64 is its eight bytes, least significant first (x86_64 memory order).
FromHex(b) == [i \in 1..8 |-> b[9 - i]]

(***************************************************************************)
(* LiminePtr<T>                                                            *)
(***************************************************************************)
\* const DEFAULT: LiminePtr<T> = Self { ptr: None, .. }
DEFAULT == [ptr |-> NULL]

\* as_ptr without the `?`: the slot's bits wrapped in Some even when null.
as_ptr_unchecked(self) == Some([raw |-> self.ptr])

\* LiminePtr::as_ptr: Some(self.ptr?.as_ptr()); the raw address, no dereference.
as_ptr(self) == IF self.ptr = NULL THEN None ELSE Some([raw |-> self.ptr])

\* LiminePtr::get: self.ptr.map(|e| e.as_ref()); a shared view of the pointee.
get(self) == IF self.ptr = NULL THEN None ELSE Some([shared_ref |-> self.ptr])

\* LiminePtr::get_mut: self.ptr.as_mut().map(|e| e.as_mut()); an exclusive view.
get_mut(self) == IF self.ptr = NULL THEN None ELSE Some([mut_ref |-> self.ptr])

\* get<'a>(&self) -> Option<&'a T> and get_mut<'a>(&mut self) -> Option<&'a mut T>:
\* the lifetime 'a of the returned view is a free parameter of the method, not
\* the lifetime of the borrow of self, so a live view keeps no borrow of the
\* wrapper alive.
ViewBorrowsWrapper == FALSE

(***************************************************************************)
(* LimineFramebufferRequest                                                *)
(***************************************************************************)
ID ==
    << FromHex(<<\Hc7, \Hb1, \Hdd, \H30, \Hdf, \H4c, \H8b, \H88>>),
       FromHex(<<\H0a, \H82, \He8, \H83, \Ha1, \H94, \Hf0, \H7b>>),
       FromHex(<<\H9d, \H58, \H27, \Hdc, \Hd8, \H81, \Hdd, \H75>>),
       FromHex(<<\Ha3, \H14, \H86, \H04, \Hf6, \Hfa, \Hb1, \H1b>>) >>

\* new() dropping its argument.
new_ignores_revision(revision) == [id |-> ID, revision |-> 0, response |-> DEFAULT]

\* LimineFramebufferRequest::new
new(revision) == [id |-> ID, revision |-> revision, response |-> DEFAULT]

\* Addresses at which the boot loader may place the Response Record
\* (8-byte aligned, non-null).
ResponseAddrs == {8 * k : k \in 1..MaxResponseSlots}

\* No accessor called yet on the wrapper a context holds.
\* (each field: <<>> before the call, <<result>> after it)
NoAcc == [as_ptr |-> <<>>, get |-> <<>>, get_mut |-> <<>>]

\* A context that has not called get_response holds no wrapper.
\* (ret[c] is <<>> then, and <<wrapper>> after a call)
NoWrapper == <<>>

HasWrapper(c) == pc[c] = "idle" /\ ret[c] # NoWrapper

SharedViewAlive(c) == acc[c].get # <<>> /\ IsSome(acc[c].get[1])
ExclusiveViewAlive(c) == acc[c].get_mut # <<>> /\ IsSome(acc[c].get_mut[1])

(***************************************************************************)
(* The boot loader (external producer): one pointer-sized store of a valid *)
(* address into the response slot, once per boot.                          *)
(***************************************************************************)
ExternalWrite(p) ==
    /\ request.response = DEFAULT
    /\ request' = [request EXCEPT !.response = [ptr |-> p]]
    /\ written' = p
    /\ UNCHANGED <<arg_revision, pc, ret, entered, returned, overlap, acc>>
    /\ UNCHANGED <<size_vars, decode_vars>>

\* Another context is inside get_response right now.
OthersReading(c) == \E d \in Contexts \ {c} : pc[d] = "reading"

(***************************************************************************)
(* Kernel contexts                                                         *)
(***************************************************************************)
\* A context enters get_response(&self); its previous wrapper is no longer used.
get_response_enter(c) ==
    /\ pc[c] = "idle"
    /\ pc' = [pc EXCEPT ![c] = "reading"]
    /\ entered' = [entered EXCEPT ![c] = (written # NULL)]
    /\ acc' = [acc EXCEPT ![c] = NoAcc]
    /\ overlap' = [overlap EXCEPT ![c] = FALSE]
    /\ UNCHANGED <<request, arg_revision, written, ret, returned>>
    /\ UNCHANGED <<size_vars, decode_vars>>

\* get_response with the slot taken (Option::take) instead of copied.
get_response_take(c) ==
    /\ pc[c] = "reading"
    /\ ret' = [ret EXCEPT ![c] = <<request.response>>]
    /\ request' = [request EXCEPT !.response = DEFAULT]
    /\ returned' = [returned EXCEPT ![c] = (written # NULL)]
    /\ overlap' = [overlap EXCEPT ![c] = OthersReading(c)]
    /\ pc' = [pc EXCEPT ![c] = "idle"]
    /\ UNCHANGED <<arg_revision, written, entered, acc>>
    /\ UNCHANGED <<size_vars, decode_vars>>

\* get_response with an ordinary read that the optimizer folds to the slot's
\* static initializer.
get_response_elided(c) ==
    /\ pc[c] = "reading"
    /\ ret' = [ret EXCEPT ![c] = <<DEFAULT>>]
    /\ returned' = [returned EXCEPT ![c] = (written # NULL)]
    /\ overlap' = [overlap EXCEPT ![c] = OthersReading(c)]
    /\ pc' = [pc EXCEPT ![c] = "idle"]
    /\ UNCHANGED <<request, arg_revision, written, entered, acc>>
    /\ UNCHANGED <<size_vars, decode_vars>>

\* get_response with an ordinary read that the context keeps cached after its
\* first call.
get_response_cached(c) ==
    /\ pc[c] = "reading"
    /\ ret' = [ret EXCEPT ![c] = IF ret[c] = <<>> THEN <<request.response>> ELSE ret[c]]
    /\ returned' = [returned EXCEPT ![c] = (written # NULL)]
    /\ overlap' = [overlap EXCEPT ![c] = OthersReading(c)]
    /\ pc' = [pc EXCEPT ![c] = "idle"]
    /\ UNCHANGED <<request, arg_revision, written, entered, acc>>
    /\ UNCHANGED <<size_vars, decode_vars>>

\* get_response: core::ptr::read_volatile(self.response.get()), a bitwise copy
\* of the slot, returned by value.
get_response(c) ==
    /\ pc[c] = "reading"
    /\ ret' = [ret EXCEPT ![c] = <<request.response>>]
    /\ returned' = [returned EXCEPT ![c] = (written # NULL)]
    /\ overlap' = [overlap EXCEPT ![c] = OthersReading(c)]
    /\ pc' = [pc EXCEPT ![c] = "idle"]
    /\ UNCHANGED <<request, arg_revision, written, entered, acc>>
    /\ UNCHANGED <<size_vars, decode_vars>>

\* wrapper.as_ptr()
call_as_ptr(c) ==
    /\ HasWrapper(c)
    /\ acc[c].as_ptr = <<>>
    /\ acc' = [acc EXCEPT ![c].as_ptr = <<as_ptr(ret[c][1])>>]
    /\ UNCHANGED <<request, arg_revision, written, pc, ret, entered, returned, overlap>>
    /\ UNCHANGED <<size_vars, decode_vars>>

\* wrapper.get(): needs a shared borrow of the wrapper for the call.
call_get(c) ==
    /\ HasWrapper(c)
    /\ acc[c].get = <<>>
    /\ ViewBorrowsWrapper => ~ExclusiveViewAlive(c)
    /\ acc' = [acc EXCEPT ![c].get = <<get(ret[c][1])>>]
    /\ UNCHANGED <<request, arg_revision, written, pc, ret, entered, returned, overlap>>
    /\ UNCHANGED <<size_vars, decode_vars>>

\* wrapper.get_mut(): needs an exclusive borrow of the wrapper for the call.
call_get_mut(c) ==
    /\ HasWrapper(c)
    /\ acc[c].get_mut = <<>>
    /\ ViewBorrowsWrapper => ~(SharedViewAlive(c) \/ ExclusiveViewAlive(c))
    /\ acc' = [acc EXCEPT ![c].get_mut = <<get_mut(ret[c][1])>>]
    /\ UNCHANGED <<request, arg_revision, written, pc, ret, entered, returned, overlap>>
    /\ UNCHANGED <<size_vars, decode_vars>>

\* The views obtained from the wrapper go out of use.
drop_views(c) ==
    /\ HasWrapper(c)
    /\ acc[c] # NoAcc
    /\ acc' = [acc EXCEPT ![c] = NoAcc]
    /\ UNCHANGED <<request, arg_revision, written, pc, ret, entered, returned, overlap>>
    /\ UNCHANGED <<size_vars, decode_vars>>

Init ==
    /\ arg_revision \in Revisions
    /\ request = new(arg_revision)
    /\ written = NULL
    /\ pc = [c \in Contexts |-> "idle"]
    /\ ret = [c \in Contexts |-> NoWrapper]
    /\ entered = [c \in Contexts |-> FALSE]
    /\ returned = [c \in Contexts |-> FALSE]
    /\ overlap = [c \in Contexts |-> FALSE]
    /\ acc = [c \in Contexts |-> NoAcc]
    /\ overflow_checks = FALSE
    /\ fb = None
    /\ size_out = None
    /\ response = None
    /\ array = <<>>
    /\ heap = <<>>
    /\ slice_out = None

Next ==
    \/ \E p \in ResponseAddrs : ExternalWrite(p)
    \/ \E c \in Contexts : get_response_enter(c)
    \/ \E c \in Contexts : get_response(c)
    \/ \E c \in Contexts : call_as_ptr(c)
    \/ \E c \in Contexts : call_get(c)
    \/ \E c \in Contexts : call_get_mut(c)
    \/ \E c \in Contexts : drop_views(c)

Spec == Init /\ [][Next]_vars

(***************************************************************************)
(* 64-bit arithmetic on byte sequences (least significant byte first)      *)
(***************************************************************************)
RECURSIVE Bytes(_, _)
\* The k low bytes of the natural number n.
Bytes(n, k) == IF k = 0 THEN <<>> ELSE <<n % 256>> \o Bytes(n \div 256, k - 1)

\* Width of usize in bytes (the kernel targets x86_64).
UsizeBytes == 8

U64(n) == Bytes(n, 8)
Pow2(e) == [i \in 1..8 |-> IF i = (e \div 8) + 1 THEN 2 ^ (e % 8) ELSE 0]
U64Max == [i \in 1..8 |-> 255]

RECURSIVE ColSum(_, _, _, _)
\* Sum of a[j] * b[k - j + 1] over j >= i: column k of the schoolbook product.
ColSum(a, b, k, i) ==
    IF i > Len(a) THEN 0
    ELSE (IF (k - i + 1) \in 1..Len(b) THEN a[i] * b[k - i + 1] ELSE 0)
         + ColSum(a, b, k, i + 1)

RECURSIVE MulFrom(_, _, _, _)
MulFrom(a, b, k, carry) ==
    IF k > Len(a) + Len(b) THEN <<>>
    ELSE LET t == ColSum(a, b, k, 1) + carry
         IN  <<t % 256>> \o MulFrom(a, b, k + 1, t \div 256)

\* The exact product, Len(a) + Len(b) bytes wide.
FullMul(a, b) == MulFrom(a, b, 1, 0)

\* Zero extension / truncation of a byte sequence to n bytes.
Resize(a, n) == [i \in 1..n |-> IF i <= Len(a) THEN a[i] ELSE 0]

\* `x as usize` for a u64 or u16 x.
as_usize(x) == Resize(x, UsizeBytes)

RECURSIVE DivFrom(_, _, _, _)
\* Long division of a by the small divisor d, from the most significant byte i
\* down, with remainder r carried in; the quotient's bytes, least significant
\* first.
DivFrom(a, d, i, r) ==
    IF i = 0 THEN <<>>
    ELSE LET t == r * 256 + a[i]
         IN  DivFrom(a, d, i - 1, t % d) \o <<t \div d>>

\* usize `/ 8`.
usize_div8(a) == DivFrom(a, 8, Len(a), 0)

\* usize `*`: the product modulo 2^64; with overflow checks compiled in
\* (debug profile) a product that does not fit panics instead.
usize_mul(a, b) ==
    LET wide == FullMul(a, b)
        fits == \A i \in (UsizeBytes + 1)..Len(wide) : wide[i] = 0
    IN  IF ~fits /\ overflow_checks
        THEN [kind |-> "panic", val |-> <<>>]
        ELSE [kind |-> "value", val |-> Resize(wide, UsizeBytes)]

(***************************************************************************)
(* LimineFramebuffer                                                       *)
(***************************************************************************)
\* size_of::<LimineFramebuffer>() under repr(C): 4 * 8 + 2 + 7 * 1 + 7 + 8 + 8.
FramebufferSize == 64

\* A LimineFramebuffer value; bpp is a u16 kept as a number.
MkFb(address, width, height, pitch, bpp) ==
    [address |-> address, width |-> width, height |-> height, pitch |-> pitch,
     bpp |-> bpp, memory_model |-> 1,
     red_mask_size |-> 8, red_mask_shift |-> 16,
     green_mask_size |-> 8, green_mask_shift |-> 8,
     blue_mask_size |-> 8, blue_mask_shift |-> 0,
     reserved |-> <<0, 0, 0, 0, 0, 0, 0>>, edid_size |-> U64(0), edid |-> NULL]

\* LimineFramebuffer::size:
\*   self.pitch as usize * self.height as usize * (self.bpp as usize / 8)
size(self) ==
    LET m1 == usize_mul(as_usize(self.pitch), as_usize(self.height))
    IN  IF m1.kind = "panic" THEN m1
        ELSE usize_mul(m1.val, usize_div8(as_usize(Bytes(self.bpp, 2))))

\* entry.size() on the entry in fb.
call_size ==
    /\ fb # None
    /\ size_out = None
    /\ size_out' = Some(size(fb[1]))
    /\ UNCHANGED <<overflow_checks, fb>>
    /\ UNCHANGED <<handshake_vars, decode_vars>>

Pitches == {U64(0), U64(1), U64(800), U64(4096), Pow2(32), Pow2(63), U64Max}
Heights == {U64(0), U64(1), U64(2), U64(600), Pow2(32), U64Max}
Bpps == {0, 8, 15, 24, 32, 65535}
Widths == {U64(200), U64(1024)}

HandshakeIdle ==
    /\ arg_revision = 0
    /\ request = new(arg_revision)
    /\ written = NULL
    /\ pc = [c \in Contexts |-> "idle"]
    /\ ret = [c \in Contexts |-> NoWrapper]
    /\ entered = [c \in Contexts |-> FALSE]
    /\ returned = [c \in Contexts |-> FALSE]
    /\ overlap = [c \in Contexts |-> FALSE]
    /\ acc = [c \in Contexts |-> NoAcc]

DecodeIdle ==
    /\ response = None
    /\ array = <<>>
    /\ heap = <<>>
    /\ slice_out = None

InitSize ==
    /\ HandshakeIdle
    /\ DecodeIdle
    /\ overflow_checks \in BOOLEAN
    /\ \E p \in Pitches : \E h \in Heights : \E b \in Bpps : \E w \in Widths :
        fb = Some(MkFb(4096, w, h, p, b))
    /\ size_out = None

NextSize == call_size

SpecSize == InitSize /\ [][NextSize]_vars

(***************************************************************************)
(* LimineFramebufferResponse                                               *)
(***************************************************************************)
NumFbSlots == 3

\* Addresses at which the boot loader may place Framebuffer Entry records.
FbAddrs == {FramebufferSize * k : k \in 1..NumFbSlots}

\* Address of the producer's array of entry pointers.
ArrayAddr == FramebufferSize * (NumFbSlots + 1)

\* The contents an entry may have.
EntryValues ==
    { MkFb(4096, U64(1024), U64(768), U64(4096), 32),
      MkFb(8192, U64(800), U64(600), U64(800), 24) }

\* `*self.framebuffers`: the pointer-sized word at the address held in the
\* field framebuffers, which is element 0 of the producer's array.  An array
\* of no elements has no element 0: the word read then is whatever lies there.
first_word ==
    IF Len(array) >= 1 THEN {array[1]} ELSE FbAddrs \cup {NULL}

\* The LimineFramebuffer values that a read at address a may give: the entry
\* placed there, or anything when no entry lies there.
load_fb(a) == IF a \in DOMAIN heap THEN {heap[a]} ELSE EntryValues

\* into_slice: core::slice::from_raw_parts(array, len): len values of T laid
\* out back to back from the address `array`.  A null `array` breaks the
\* function's safety contract: the build may abort on it (checked
\* preconditions) or carry on.
into_slice(base, len) ==
    LET views ==
            IF len = 0 THEN {<<>>}
            ELSE { e \in [1..len -> EntryValues] :
                     \A i \in 1..len : e[i] \in load_fb(base + FramebufferSize * (i - 1)) }
        slices == { [kind |-> "slice", base |-> base, entries |-> e] : e \in views }
    IN  IF base = NULL
        THEN slices \cup {[kind |-> "abort", base |-> base, entries |-> <<>>]}
        ELSE slices

\* LimineFramebufferResponse::framebuffers:
\*   into_slice(*self.framebuffers, self.framebuffer_count as usize)
framebuffers(self) ==
    UNION { into_slice(base, self.framebuffer_count) : base \in first_word }

\* response.framebuffers()
call_framebuffers ==
    /\ response # None
    /\ slice_out = None
    /\ \E out \in framebuffers(response[1]) : slice_out' = Some(out)
    /\ UNCHANGED <<response, array, heap>>
    /\ UNCHANGED <<handshake_vars, size_vars>>

SizeIdle ==
    /\ overflow_checks = FALSE
    /\ fb = None
    /\ size_out = None

IsInjective(a) == \A i \in DOMAIN a : \A j \in DOMAIN a : a[i] = a[j] => i = j

\* A compliant Response Record: framebuffer_count = n, and framebuffers
\* pointing to an array of n non-null pointers, each to an entry record of its
\* own.
InitDecode ==
    /\ HandshakeIdle
    /\ SizeIdle
    /\ heap \in [FbAddrs -> EntryValues]
    /\ \E k \in 0..MaxCount :
        LET n == MaxCount - k
        IN  /\ array \in {a \in [1..n -> FbAddrs] : IsInjective(a)}
            /\ response =
                Some([revision |-> 0, framebuffer_count |-> n, framebuffers |-> ArrayAddr])
    /\ slice_out = None

NextDecode == call_framebuffers

SpecDecode == InitDecode /\ [][NextDecode]_vars

(***************************************************************************)
(* Claims about the handshake (checked under Spec)                         *)
(***************************************************************************)
\* c has completed a get_response call and holds the wrapper it returned.
Completed(c) == pc[c] = "idle" /\ ret[c] # NoWrapper

\* This step is the return of c's get_response call.
Returns(c) == pc[c] = "reading" /\ pc'[c] = "idle"

\* C1: once the boot loader has stored a valid pointer p in the response slot,
\* every get_response call entered after that store returns a present LiminePtr
\* whose as_ptr() is p and whose get() is a view of the record at p, and never
\* absence or another address.
C1_ReadAfterWrite ==
    \A c \in Contexts :
        (Completed(c) /\ entered[c]) =>
            /\ written \in ResponseAddrs
            /\ as_ptr(ret[c][1]) = Some([raw |-> written])
            /\ get(ret[c][1]) = Some([shared_ref |-> written])
            /\ acc[c].as_ptr \in {<<>>, <<Some([raw |-> written])>>}
            /\ acc[c].get \in {<<>>, <<Some([shared_ref |-> written])>>}

C1_Witness ==
    \E c \in Contexts :
        /\ Completed(c) /\ entered[c]
        /\ acc[c].as_ptr = <<Some([raw |-> written])>>
        /\ acc[c].get = <<Some([shared_ref |-> written])>>

\* C2: for every revision r, while the boot loader has never written the slot
\* of the record built by new(r), every wrapper get_response has returned gives
\* None from as_ptr() and from get(), whatever the kernel has done before.
C2_NeverWrittenIsAbsent ==
    written = NULL =>
        \A c \in Contexts :
            /\ ret[c] # NoWrapper =>
                 (as_ptr(ret[c][1]) = None /\ get(ret[c][1]) = None)
            /\ acc[c].as_ptr \in {<<>>, <<None>>}
            /\ acc[c].get \in {<<>>, <<None>>}

C2_Witness ==
    /\ written = NULL
    /\ arg_revision = MaxRevision
    /\ \E c \in Contexts :
        /\ Completed(c)
        /\ acc[c].as_ptr = <<None>> /\ acc[c].get = <<None>> /\ acc[c].get_mut = <<None>>
    /\ \E d \in Contexts : pc[d] = "reading" /\ ret[d] # NoWrapper

\* C3: the response slot only moves Unanswered -> Answered: a step that changes
\* it starts from the absent slot, stores a valid address and is no step of a
\* kernel context (so the slot changes at most once, and never by new,
\* get_response, as_ptr, get, get_mut); and once a get_response has returned a
\* present value, every get_response that returns later returns that same
\* address.
C3_UnansweredToAnswered ==
    [][ /\ request'.response # request.response =>
            /\ request.response = DEFAULT
            /\ request'.response.ptr \in ResponseAddrs
            /\ UNCHANGED <<pc, ret, entered, returned, overlap, acc>>
        /\ \A c \in Contexts : Returns(c) =>
            \A d \in Contexts :
                (ret[d] # NoWrapper /\ ret[d][1].ptr # NULL) => ret'[c] = ret[d]
      ]_vars

C3_Witness ==
    /\ request.response # DEFAULT
    /\ \E c \in Contexts : \E d \in Contexts \ {c} :
        /\ Completed(c) /\ Completed(d)
        /\ ret[c] = <<request.response>> /\ ret[d] = <<request.response>>
        /\ acc[c].get_mut = <<Some([mut_ref |-> written])>>
        /\ returned[d] /\ entered[c]

\* C4: get_response is read-only and idempotent: the step in which a call
\* returns leaves the record's id, revision and response slot unchanged, and a
\* call that reads after the boot loader's single write returns a present value
\* equal to the value of every earlier call that read after that write.
C4_Idempotent ==
    [][ \A c \in Contexts : Returns(c) =>
            /\ request' = request
            /\ written # NULL =>
                /\ ret'[c][1].ptr # NULL
                /\ \A d \in Contexts :
                    (ret[d] # NoWrapper /\ returned[d]) => ret'[c] = ret[d]
      ]_vars

C4_Witness ==
    \E c \in Contexts : \E d \in Contexts \ {c} :
        /\ Completed(c) /\ entered[c] /\ returned[c]
        /\ pc[d] = "reading" /\ entered[d] /\ returned[d]
        /\ ret[d] = ret[c] /\ ret[c] = <<[ptr |-> written]>>
        /\ request = [id |-> ID, revision |-> arg_revision, response |-> [ptr |-> written]]

\* c's last call and d's last call ran with no store by the boot loader between
\* the entry of either and the return of either.
NoWriteInterleaved(c, d) ==
    /\ entered[c] = returned[c]
    /\ entered[d] = returned[d]
    /\ entered[c] = entered[d]

\* C7: get_response calls of several contexts with no external write
\* interleaved, concurrent ones included, all return the same value, and every
\* value returned is absence or the complete address the boot loader wrote.
C7_ConcurrentReadsAgree ==
    /\ \A c \in Contexts : \A d \in Contexts :
        (Completed(c) /\ Completed(d) /\ NoWriteInterleaved(c, d)) => ret[c] = ret[d]
    /\ \A c \in Contexts :
        ret[c] # NoWrapper => ret[c][1].ptr \in {NULL, written}

C7_Witness ==
    \E c \in Contexts : \E d \in Contexts \ {c} :
        /\ Completed(c) /\ Completed(d) /\ NoWriteInterleaved(c, d)
        /\ overlap[c]
        /\ entered[c]
        /\ ret[c] = <<[ptr |-> written]>> /\ ret[d] = ret[c]

\* C8: on one LiminePtr wrapper, an exclusive view from get_mut() and a shared
\* view from get() are never alive at the same time.
C8_NoSharedWithExclusive ==
    \A c \in Contexts : ~(SharedViewAlive(c) /\ ExclusiveViewAlive(c))

\* C10: in every reachable state the record's identification token is
\* 0xc7b1dd30df4c8b88, 0x0a82e883a194f07b, 0x9d5827dcd881dd75,
\* 0xa3148604f6fab11b and its revision is the r given to new(r).
C10_IdAndRevisionFixed ==
    /\ request.id =
        << FromHex(<<\Hc7, \Hb1, \Hdd, \H30, \Hdf, \H4c, \H8b, \H88>>),
           FromHex(<<\H0a, \H82, \He8, \H83, \Ha1, \H94, \Hf0, \H7b>>),
           FromHex(<<\H9d, \H58, \H27, \Hdc, \Hd8, \H81, \Hdd, \H75>>),
           FromHex(<<\Ha3, \H14, \H86, \H04, \Hf6, \Hfa, \Hb1, \H1b>>) >>
    /\ request.revision = arg_revision

C10_Witness ==
    /\ arg_revision = MaxRevision
    /\ request.response # DEFAULT
    /\ \E c \in Contexts :
        /\ Completed(c) /\ ret[c] = <<request.response>>
        /\ acc[c].get_mut = <<Some([mut_ref |-> written])>>

(***************************************************************************)
(* Claims about size() (checked under SpecSize)                            *)
(***************************************************************************)
\* The exact value of pitch * height * (bpp / 8), 24 bytes wide.
ExactSize(f) == FullMul(FullMul(f.pitch, f.height), U64(f.bpp \div 8))

\* C6: for every entry whose bpp is a multiple of 8, size() returns
\* pitch * height * (bpp / 8); pitch = 800, height = 600, bpp = 32 gives
\* 1,920,000; and size() changes no field of the entry.
C6_SizeIsProduct ==
    (size_out # None /\ fb[1].bpp % 8 = 0) =>
        /\ size_out[1].kind = "value"
        /\ Resize(size_out[1].val, 24) = ExactSize(fb[1])
        /\ (fb[1].pitch = U64(800) /\ fb[1].height = U64(600) /\ fb[1].bpp = 32)
            => size_out[1].val = U64(1920000)

\* C9: no operation of the layer panics or aborts, for any state or input;
\* size() completes normally for every pitch, height and bpp, products that
\* exceed the machine word included.
C9_NoPanic ==
    /\ size_out # None => size_out[1].kind = "value"
    /\ slice_out # None => slice_out[1].kind = "slice"

\* size() on inputs whose products fit the machine word: the exact product is
\* returned in every build profile, whatever bpp is (bpp / 8 rounds down).
SizeExactWhenNoOverflow ==
    LET f == fb[1]
        fits(w) == \A i \in (UsizeBytes + 1)..Len(w) : w[i] = 0
    IN  (size_out # None /\ fits(FullMul(f.pitch, f.height)) /\ fits(ExactSize(f))) =>
            /\ size_out[1].kind = "value"
            /\ Resize(size_out[1].val, 24) = ExactSize(f)

SizeExample ==
    (size_out # None /\ fb[1].pitch = U64(800) /\ fb[1].height = U64(600) /\ fb[1].bpp = 32)
        => size_out[1] = [kind |-> "value", val |-> U64(1920000)]

(***************************************************************************)
(* Claims about framebuffers() (checked under SpecDecode)                  *)
(***************************************************************************)
\* C5: for a Response Record with framebuffer_count = N whose framebuffers
\* field points to an array of N non-null entry pointers, framebuffers()
\* yields exactly N entries (none when N = 0), and the i-th entry yielded has
\* the field values of the record the i-th pointer of the array points to,
\* wherever that record lies.
C5_EntriesFollowPointers ==
    slice_out # None =>
        /\ slice_out[1].kind = "slice"
        /\ Len(slice_out[1].entries) = response[1].framebuffer_count
        /\ \A i \in 1..response[1].framebuffer_count :
            slice_out[1].entries[i] = heap[array[i]]

\* What framebuffers() does yield: the entries laid out back to back from the
\* record the first pointer of the array points to.
EntriesAreContiguousFromFirst ==
    (slice_out # None /\ response[1].framebuffer_count >= 1) =>
        /\ slice_out[1].kind = "slice"
        /\ slice_out[1].base = array[1]
        /\ Len(slice_out[1].entries) = response[1].framebuffer_count
        /\ \A i \in 1..response[1].framebuffer_count :
            LET a == array[1] + FramebufferSize * (i - 1)
            IN  a \in FbAddrs => slice_out[1].entries[i] = heap[a]

====
